---- MODULE Spec2Model ----
(***************************************************************************)
(* A model of bloom-map: the raster-to-GeoJSON batch pipeline of           *)
(* data_processor.py (calculate_bloom_proxy, save_to_geojson, the script   *)
(* body) and the /api/ndvi request handler of server.py.                   *)
(*                                                                         *)
(* Numbers.  A raw raster sample is an integer count; the code divides it  *)
(* by SCALE_FACTOR in float32, so a scaled sample is modelled as the       *)
(* float32 it is: a record [m, e] standing for m * 2^e with                *)
(* 2^23 <= m < 2^24, or Zero.  A value rounded to two decimals is an       *)
(* integer number of hundredths.  A coordinate is a rational <<num, den>>. *)
(***************************************************************************)
EXTENDS Integers, Sequences, FiniteSets, TLC

\* ------------------------------------------------------------------ bounds
Bands  == 2
Height == 2
Width  == 2

\* ------------------------------------------------------- program constants
SCALE_FACTOR == 10000
MaxPolls == 20

VARIABLES
    \* the file system and the source raster
    raster,           \* the bands of RAW_NDVI_FILE: [1..Bands -> [Pixels -> Nat]]
    src_present,      \* RAW_NDVI_FILE exists and rasterio can open it
    dir_exists,       \* the parent directory of OUTPUT_FILE exists
    out_file,         \* OUTPUT_FILE: [exists, text]
    \* the script run
    pc,               \* "start" | "save" | "done"
    prior,            \* OUTPUT_FILE as it was when the run started
    max_ndvi,         \* local max_ndvi of calculate_bloom_proxy (or NoGrid)
    blooming_pixels,  \* local blooming_pixels (or NoGrid)
    shape_list,       \* what shapes(...) yielded, in order
    processed_data,   \* the value calculate_bloom_proxy returned
    opened,           \* open(OUTPUT_FILE, 'w') succeeded in this run
    write_failed,     \* the except branch of save_to_geojson ran
    log,              \* the messages printed in this run
    \* the /api/ndvi handler
    s_pc,             \* position in api_ndvi
    polls,            \* status requests issued so far
    status,           \* the status of the last poll
    saw_done,         \* some poll returned "done"
    requests,         \* the external requests issued, in order
    response          \* the handler's answer: [code, detail]

pipeVars == <<raster, src_present, dir_exists, out_file, pc, prior, max_ndvi,
              blooming_pixels, shape_list, processed_data, opened,
              write_failed, log>>
srvVars == <<s_pc, polls, status, saw_done, requests, response>>
vars == <<raster, src_present, dir_exists, out_file, pc, prior, max_ndvi,
          blooming_pixels, shape_list, processed_data, opened, write_failed,
          log, s_pc, polls, status, saw_done, requests, response>>

\* ------------------------------------------------------------------- grids
Pixels == (1..Height) \X (1..Width)

BandIds == 1..Bands

NoGrid == [p \in {} |-> 0]

\* The pixel at a row-major position.
PixelAt(i) == <<((i - 1) \div Width) + 1, ((i - 1) % Width) + 1>>

\* ----------------------------------------------------------------- float32
Zero == [m |-> 0, e |-> 0]

\* Round to nearest, ties to even, of the 24-bit quotient q with remainder r
\* of a division by b.
F32Round(q, r, b, e) ==
    LET up == (2 * r > b) \/ (2 * r = b /\ q % 2 = 1)
        m  == IF up THEN q + 1 ELSE q
    IN  IF m = 2^24 THEN [m |-> 2^23, e |-> e + 1] ELSE [m |-> m, e |-> e]

\* Binary long division until the quotient has 24 significant bits.
RECURSIVE F32Widen(_, _, _, _)
F32Widen(q, r, b, e) ==
    IF q >= 2^23
    THEN F32Round(q, r, b, e)
    ELSE LET bit == IF 2 * r >= b THEN 1 ELSE 0
         IN  F32Widen(2 * q + bit, 2 * r - bit * b, b, e - 1)

\* The float32 nearest to a / b, for integers 0 <= a < 2^24 * b and b > 0:
\* what numpy's float32 division returns for two exactly representable
\* operands.
F32Quot(a, b) == IF a = 0 THEN Zero ELSE F32Widen(a \div b, a % b, b, 0)

\* x <= y on non-negative float32 values.
F32Leq(x, y) ==
    \/ x.m = 0
    \/ /\ y.m # 0
       /\ \/ x.e < y.e
          \/ x.e = y.e /\ x.m <= y.m

\* ------------------------------------------------------------------ inputs
\* The raw samples the rasters are drawn from: just below the threshold, on
\* it, above it; and the samples of a pixel's other bands.
PeakSamples == {7999, 8000, 8500}

OffSamples == {0, 7999}

\* ------------------------------------------------------- the calculation
\* The float32 quotients of the raw samples, computed once.
ScaleTable ==
    [raw \in PeakSamples \cup OffSamples |-> F32Quot(raw, SCALE_FACTOR)]

\* scaled_ndvi_array = ndvi_array / SCALE_FACTOR (astype('float32') is exact
\* on the integer samples of the raster).
ScaleSample(raw) == ScaleTable[raw]

scaled_ndvi_array(ndvi_array) ==
    [b \in BandIds |-> [p \in Pixels |-> ScaleSample(ndvi_array[b][p])]]

\* The smaller of two samples (what np.amin would reduce with).
Minimum(x, y) == IF F32Leq(x, y) THEN x ELSE y

\* The larger of two samples.
Maximum(x, y) == IF F32Leq(x, y) THEN y ELSE x

\* np.amax(arr, axis=0): the reduction over the band axis.
RECURSIVE AmaxFrom(_, _, _)
AmaxFrom(arr, b, acc) ==
    IF b > Bands
    THEN acc
    ELSE AmaxFrom(arr, b + 1, [p \in Pixels |-> Maximum(acc[p], arr[b][p])])

Amax(arr) == AmaxFrom(arr, 2, arr[1])

\* bloom_threshold = 0.80, cast to the float32 of the array it is compared
\* with.
bloom_threshold == F32Quot(80, 100)

\* max_ndvi > bloom_threshold, for one sample: the boundary-exclusive test.
MeetsThresholdStrict(x) == ~F32Leq(x, bloom_threshold)

\* max_ndvi >= bloom_threshold, for one sample.
MeetsThreshold(x) == F32Leq(bloom_threshold, x)

BloomMask(peak) == [p \in Pixels |-> MeetsThreshold(peak[p])]

\* blooming_pixels.astype(np.int16)
AsInt16(mask) == [p \in Pixels |-> IF mask[p] THEN 1 ELSE 0]

\* ------------------------------------------------------ rasterio's shapes
\* Two pixels are neighbours under connectivity 8.
Connected8(p, q) ==
    /\ p # q
    /\ p[1] - q[1] \in {-1, 0, 1}
    /\ p[2] - q[2] \in {-1, 0, 1}

\* Two pixels are neighbours under shapes' default connectivity, 4.
Connected(p, q) ==
    \/ p[1] = q[1] /\ p[2] - q[2] \in {-1, 1}
    \/ p[2] = q[2] /\ p[1] - q[1] \in {-1, 1}

\* The masked pixels joined to `region` through neighbours of equal value.
RECURSIVE Fill(_, _, _)
Fill(image, mask, region) ==
    LET next == region \cup
                {q \in Pixels : /\ mask[q]
                                /\ \E p \in region : /\ Connected(p, q)
                                                    /\ image[q] = image[p]}
    IN  IF next = region THEN region ELSE Fill(image, mask, next)

\* shapes(image, mask=mask, transform=...): one (geometry, value) pair per
\* connected region of equal-valued masked pixels; a geometry is kept as the
\* set of pixels its polygon covers.  The regions come in the row-major
\* order of their first pixel.
RECURSIVE ShapesFrom(_, _, _, _)
ShapesFrom(image, mask, i, seen) ==
    IF i > Height * Width
    THEN <<>>
    ELSE LET p == PixelAt(i)
         IN  IF ~mask[p] \/ p \in seen
             THEN ShapesFrom(image, mask, i + 1, seen)
             ELSE LET reg == Fill(image, mask, {p})
                  IN  <<[geom |-> reg, val |-> image[p]]>>
                      \o ShapesFrom(image, mask, i + 1, seen \cup reg)

Shapes(image, mask) == ShapesFrom(image, mask, 1, {})

\* ------------------------------------------------------------ the features
RECURSIVE SumOver(_, _)
SumOver(S, k) ==
    IF S = {} THEN 0
    ELSE LET p == CHOOSE x \in S : TRUE
         IN  (2 * p[k] - 1) + SumOver(S \ {p}, k)

\* shape(geom).centroid: the area centroid of a union of unit pixel squares
\* is the mean of the pixel centres; pixel (r, c) covers [c-1, c] x [r-1, r]
\* under the raster's transform, taken here to be the unit one.
Centroid(geom) ==
    [x |-> <<SumOver(geom, 2), 2 * Cardinality(geom)>>,
     y |-> <<SumOver(geom, 1), 2 * Cardinality(geom)>>]

\* round(val, 2), in hundredths, of the integer-valued val shapes yields.
Round2(val) == 100 * val

Feature(geom, val) ==
    [type |-> "Feature",
     geometry |-> [type |-> "Point",
                   coordinates |-> <<Centroid(geom).x, Centroid(geom).y>>],
     properties |-> [name |-> "High Bloom Zone",
                     intensity |-> "Very High",
                     date |-> "2024 Bloom Period Peak",
                     species_proxy |-> "Generic Vegetation Bloom",
                     ndvi_peak |-> Round2(val)]]

Features(shp) ==
    [i \in 1..Len(shp) |-> Feature(shp[i].geom, shp[i].val)]

FeatureCollection(features) ==
    [type |-> "FeatureCollection", features |-> features]

None == [type |-> "None"]

\* The fallback of the RasterioIOError branch.
MOCK ==
    FeatureCollection(
      <<[type |-> "Feature",
         geometry |-> [type |-> "Point",
                       coordinates |-> <<(<<-100, 1>>), <<40, 1>>>>],
         properties |-> [name |-> "Midwest Grassland Peak (Mock)",
                         intensity |-> "High",
                         date |-> "2025-05-15",
                         species_proxy |-> "Grass/Cereal Crop Bloom",
                         ndvi_peak |-> 85]]>>)

\* A RasterioIOError branch with no fallback.
OnRasterioIOErrorNone == None

\* What the except rasterio.RasterioIOError branch returns.
OnRasterioIOError == MOCK

\* A return that short-circuits on an empty features list.
ReturnNoneWhenEmpty(features) ==
    IF features = <<>> THEN None ELSE FeatureCollection(features)

\* What calculate_bloom_proxy returns at the end of its try block.
ReturnValue(features) == FeatureCollection(features)

\* ------------------------------------------------------------ the output
Absent == [exists |-> FALSE, text |-> <<>>]

\* json.dump(geojson_data, f, indent=4): the text, as the chunks written.
Serialise(data) ==
    <<[tok |-> "{ type, features: ["]>>
    \o [i \in 1..Len(data.features) |-> [tok |-> "feature", value |-> data.features[i]]]
    \o <<[tok |-> "] }"]>>

\* geojson_data and 'features' in geojson_data and geojson_data['features']
ShouldSave(geojson_data) ==
    /\ geojson_data # None
    /\ "features" \in DOMAIN geojson_data
    /\ geojson_data.features # <<>>

\* ------------------------------------------- calculate_bloom_proxy, by outcome
\* The try block runs to its return.
CalcOk ==
    /\ pc = "start"
    /\ src_present
    /\ max_ndvi' = Amax(scaled_ndvi_array(raster))
    /\ blooming_pixels' = BloomMask(max_ndvi')
    /\ shape_list' = Shapes(AsInt16(blooming_pixels'), blooming_pixels')
    /\ processed_data' = ReturnValue(Features(shape_list'))
    /\ log' = log \o <<"starting", "detected">>
    /\ pc' = "save"
    /\ UNCHANGED <<raster, src_present, dir_exists, out_file, prior, opened,
                   write_failed>>
    /\ UNCHANGED srvVars

\* rasterio.open raises RasterioIOError: the mock fallback is returned.
CalcIOError ==
    /\ pc = "start"
    /\ ~src_present
    /\ processed_data' = OnRasterioIOError
    /\ log' = log \o <<"starting", "read error, mock fallback">>
    /\ pc' = "save"
    /\ UNCHANGED <<raster, src_present, dir_exists, out_file, prior, max_ndvi,
                   blooming_pixels, shape_list, opened, write_failed>>
    /\ UNCHANGED srvVars

\* Any other exception inside the try block: None is returned.
CalcUnexpected ==
    /\ pc = "start"
    /\ src_present
    /\ processed_data' = None
    /\ log' = log \o <<"starting", "unexpected error">>
    /\ pc' = "save"
    /\ UNCHANGED <<raster, src_present, dir_exists, out_file, prior, max_ndvi,
                   blooming_pixels, shape_list, opened, write_failed>>
    /\ UNCHANGED srvVars

CalculateBloomProxy == CalcOk \/ CalcIOError \/ CalcUnexpected

\* ------------------------------------------------- save_to_geojson, by outcome
\* The else branch: nothing is opened.
SaveSkip ==
    /\ pc = "save"
    /\ ~ShouldSave(processed_data)
    /\ log' = log \o <<"skipping save">>
    /\ pc' = "done"
    /\ UNCHANGED <<raster, src_present, dir_exists, out_file, prior, max_ndvi,
                   blooming_pixels, shape_list, processed_data, opened,
                   write_failed>>
    /\ UNCHANGED srvVars

\* open(OUTPUT_FILE, 'w') raises (no parent directory): the except branch.
SaveOpenFails ==
    /\ pc = "save"
    /\ ShouldSave(processed_data)
    /\ ~dir_exists
    /\ write_failed' = TRUE
    /\ log' = log \o <<"failed to save">>
    /\ pc' = "done"
    /\ UNCHANGED <<raster, src_present, dir_exists, out_file, prior, max_ndvi,
                   blooming_pixels, shape_list, processed_data, opened>>
    /\ UNCHANGED srvVars

\* open creates or truncates the file and json.dump writes all of it.
SaveWrites ==
    /\ pc = "save"
    /\ ShouldSave(processed_data)
    /\ dir_exists
    /\ opened' = TRUE
    /\ out_file' = [exists |-> TRUE, text |-> Serialise(processed_data)]
    /\ log' = log \o <<"saved">>
    /\ pc' = "done"
    /\ UNCHANGED <<raster, src_present, dir_exists, prior, max_ndvi,
                   blooming_pixels, shape_list, processed_data, write_failed>>
    /\ UNCHANGED srvVars

\* open creates or truncates the file, then a write raises (an OSError) after
\* k chunks: the except branch, with the file closed as it is.
SaveDumpFails ==
    /\ pc = "save"
    /\ ShouldSave(processed_data)
    /\ dir_exists
    /\ \E k \in 0..(Len(Serialise(processed_data)) - 1) :
           out_file' = [exists |-> TRUE,
                        text |-> SubSeq(Serialise(processed_data), 1, k)]
    /\ opened' = TRUE
    /\ write_failed' = TRUE
    /\ log' = log \o <<"failed to save">>
    /\ pc' = "done"
    /\ UNCHANGED <<raster, src_present, dir_exists, prior, max_ndvi,
                   blooming_pixels, shape_list, processed_data>>
    /\ UNCHANGED srvVars

SaveToGeojson == SaveSkip \/ SaveOpenFails \/ SaveWrites \/ SaveDumpFails

\* The script is run again; the source raster may have come or gone.
NewRun ==
    /\ pc = "done"
    /\ pc' = "start"
    /\ src_present' \in BOOLEAN
    /\ prior' = out_file
    /\ max_ndvi' = NoGrid
    /\ blooming_pixels' = NoGrid
    /\ shape_list' = <<>>
    /\ processed_data' = None
    /\ opened' = FALSE
    /\ write_failed' = FALSE
    /\ log' = <<>>
    /\ UNCHANGED <<raster, dir_exists, out_file>>
    /\ UNCHANGED srvVars

\* ------------------------------------------------------------- rasters
\* The band in which pixel p has its peak.
PeakBandOf(p, pb, skew) == ((pb - 1 + skew * (p[1] + p[2])) % Bands) + 1

StackOf(kinds, pb, skew, off) ==
    [b \in BandIds |->
        [p \in Pixels |-> IF b = PeakBandOf(p, pb, skew) THEN kinds[p] ELSE off]]

\* Every pixel peaks in the same band over a background of 0, or the peak
\* band moves along the diagonals over a background just below the threshold.
Patterns == {[skew |-> 0, off |-> 0], [skew |-> 1, off |-> 7999]}

Stacks ==
    {StackOf(k, pb, pat.skew, pat.off) :
        k \in [Pixels -> PeakSamples], pb \in BandIds, pat \in Patterns}

SmallStacks ==
    {StackOf(k, 1, 0, 0) : k \in [Pixels -> {7999, 8000}]}

ServerIdle ==
    /\ s_pc = "idle"
    /\ polls = 0
    /\ status = "none"
    /\ saw_done = FALSE
    /\ requests = <<>>
    /\ response = [code |-> 0, detail |-> ""]

RunStart ==
    /\ pc = "start"
    /\ out_file = Absent
    /\ prior = Absent
    /\ max_ndvi = NoGrid
    /\ blooming_pixels = NoGrid
    /\ shape_list = <<>>
    /\ processed_data = None
    /\ opened = FALSE
    /\ write_failed = FALSE
    /\ log = <<>>

\* Any number of runs of the script, over a small family of rasters.
Init ==
    /\ raster \in SmallStacks
    /\ src_present \in BOOLEAN
    /\ dir_exists \in BOOLEAN
    /\ RunStart
    /\ ServerIdle

Next == CalculateBloomProxy \/ SaveToGeojson \/ NewRun

Spec == Init /\ [][Next]_vars

\* One call of calculate_bloom_proxy, over the full family of rasters.
InitRaster ==
    /\ raster \in Stacks
    /\ src_present \in BOOLEAN
    /\ dir_exists = TRUE
    /\ RunStart
    /\ ServerIdle

NextRaster == CalculateBloomProxy

SpecRaster == InitRaster /\ [][NextRaster]_vars

\* ------------------------------------------------------- /api/ndvi (server)
\* What the status request of one poll can bring back: a task status, or a
\* body st.json() / stj.get cannot read (the exception ends the request).
Statuses == {"pending", "processing", "queued", "done"}

Unreadable == "unreadable"

Respond(code, detail) ==
    /\ response' = [code |-> code, detail |-> detail]
    /\ s_pc' = "done"

\* A loop that runs one iteration more.
LoopExhaustedLate(n) == n > MaxPolls

\* The for loop has run out: range(20) is exhausted.
LoopExhausted(n) == n >= MaxPolls

\* get_token(): the login request.
GetToken ==
    /\ s_pc = "login"
    /\ requests' = Append(requests, "POST /login")
    /\ \E code \in {200, 401} :
          IF code # 200
          THEN Respond(500, "Login failed")
          ELSE s_pc' = "submit" /\ UNCHANGED response
    /\ UNCHANGED <<polls, status, saw_done>>
    /\ UNCHANGED pipeVars

\* The task is submitted.
SubmitTask ==
    /\ s_pc = "submit"
    /\ requests' = Append(requests, "POST /task")
    /\ \E code \in {200, 400} :
          IF code # 200
          THEN Respond(code, "task rejected")
          ELSE s_pc' = "poll" /\ UNCHANGED response
    /\ UNCHANGED <<polls, status, saw_done>>
    /\ UNCHANGED pipeVars

\* One iteration of the polling loop: the status request, then break on
\* "done", or sleep and, after the last iteration, the loop's else clause.
Poll ==
    /\ s_pc = "poll"
    /\ ~LoopExhausted(polls)
    /\ requests' = Append(requests, "GET /task/id")
    /\ polls' = polls + 1
    /\ \E st \in Statuses \cup {Unreadable} :
          /\ status' = st
          /\ saw_done' = (saw_done \/ st = "done")
          /\ IF st = Unreadable
             THEN Respond(500, "Internal Server Error")
             ELSE IF st = "done"
             THEN s_pc' = "bundle" /\ UNCHANGED response
             ELSE IF LoopExhausted(polls')
             THEN Respond(500, "Task not completed in time")
             ELSE s_pc' = "poll" /\ UNCHANGED response
    /\ UNCHANGED pipeVars

\* The bundle is requested and searched for an NDVI file.
FetchBundle ==
    /\ s_pc = "bundle"
    /\ requests' = Append(requests, "GET /bundle/id")
    /\ \E code \in {200, 404}, has_ndvi \in BOOLEAN :
          IF code # 200
          THEN Respond(code, "bundle refused")
          ELSE IF ~has_ndvi
          THEN Respond(500, "No NDVI file in bundle")
          ELSE s_pc' = "download" /\ UNCHANGED response
    /\ UNCHANGED <<polls, status, saw_done>>
    /\ UNCHANGED pipeVars

\* The NDVI file is downloaded and its first data row parsed.
DownloadAndParse ==
    /\ s_pc = "download"
    /\ requests' = Append(requests, "GET ndvi file")
    /\ \E code \in {200, 403}, lines \in {1, 2}, numeric \in BOOLEAN :
          IF code # 200
          THEN Respond(code, "Failed download NDVI file")
          ELSE IF lines < 2
          THEN Respond(500, "Empty NDVI data")
          ELSE IF ~numeric
          THEN Respond(500, "Internal Server Error")
          ELSE Respond(200, "ndvi")
    /\ UNCHANGED <<polls, status, saw_done>>
    /\ UNCHANGED pipeVars

InitNdvi ==
    /\ raster = StackOf([p \in Pixels |-> 8000], 1, 0, 0)
    /\ src_present = TRUE
    /\ dir_exists = TRUE
    /\ RunStart
    /\ s_pc = "login"
    /\ polls = 0
    /\ status = "none"
    /\ saw_done = FALSE
    /\ requests = <<>>
    /\ response = [code |-> 0, detail |-> ""]

NextNdvi == GetToken \/ SubmitTask \/ Poll \/ FetchBundle \/ DownloadAndParse

\* One request, handled to its end; every request of the handler is answered,
\* so the handler takes its next step.
SpecNdvi == InitNdvi /\ [][NextNdvi]_vars /\ WF_vars(NextNdvi)

\* ================================================================== claims
\* The try block of calculate_bloom_proxy ran to its return in this run.
CalcRan == pc \in {"save", "done"} /\ DOMAIN blooming_pixels = Pixels

NoBloom == \A p \in Pixels : ~blooming_pixels[p]

HasFeatures(d) == d # None /\ d.features # <<>>

\* The largest raw sample of pixel p over the bands of the raster.
RawPeak(p) ==
    LET b == CHOOSE x \in BandIds : \A y \in BandIds : raster[y][p] <= raster[x][p]
    IN  raster[b][p]

\* raw / SCALE_FACTOR >= 0.80, in exact arithmetic.
AtLeastThreshold(raw) == 100 * raw >= 80 * SCALE_FACTOR

IsStrictPrefix(s, t) == Len(s) < Len(t) /\ s = SubSeq(t, 1, Len(s))

\* C1, as stated: when no pixel of the bloom mask is true,
\* calculate_bloom_proxy returns None.
C1_ReturnsNoneWhenNoBloom ==
    (CalcRan /\ NoBloom) => processed_data = None

\* C1, amended: when no pixel of the bloom mask is true, calculate_bloom_proxy
\* returns a FeatureCollection whose features list is empty (not None), and
\* save_to_geojson then skips the write, leaving the output path as it was.
C1_ReturnsEmptyCollection ==
    (CalcRan /\ NoBloom) =>
        /\ processed_data = [type |-> "FeatureCollection", features |-> <<>>]
        /\ pc = "done" => (out_file = prior /\ ~opened
                           /\ log[Len(log)] = "skipping save")

C1_Witness ==
    /\ pc = "done" /\ CalcRan /\ NoBloom
    /\ processed_data # None
    /\ processed_data.features = <<>>

\* C2, as stated: when the source raster is missing or unreadable, the run
\* ends with the output path holding what it held before the run.
C2_MissingSourceWritesNothing ==
    (pc = "done" /\ ~src_present) => out_file = prior

\* C2, amended: when the source raster is missing or unreadable, the run
\* ends without raising, calculate_bloom_proxy returns the one-feature mock
\* collection and save_to_geojson writes it: the output path keeps its
\* content only when open fails (no parent directory); otherwise it holds the
\* mock collection, or a proper prefix of it when a write fails part-way.
C2_MissingSourceWritesMock ==
    /\ (pc \in {"start", "save"} /\ ~src_present) => ENABLED Next
    /\ (pc \in {"save", "done"} /\ ~src_present) => processed_data = MOCK
    /\ (pc = "done" /\ ~src_present) =>
          IF ~dir_exists
          THEN out_file = prior /\ write_failed
          ELSE /\ out_file.exists
               /\ IF write_failed
                  THEN IsStrictPrefix(out_file.text, Serialise(MOCK))
                  ELSE out_file.text = Serialise(MOCK)

C2_Witness ==
    /\ pc = "done" /\ ~src_present
    /\ prior = Absent
    /\ out_file.exists
    /\ Len(out_file.text) = 3
    /\ out_file.text[2].value.properties.name = "Midwest Grassland Peak (Mock)"

\* C3: a run that fails without the mock fallback (an unexpected processing
\* error, an empty result, or an error inside save_to_geojson) leaves the
\* output path exactly as it was before the run.
C3_FailedRunLeavesOutput ==
    (/\ pc = "done"
     /\ src_present
     /\ \/ processed_data = None
        \/ ~HasFeatures(processed_data)
        \/ write_failed)
    => out_file = prior

\* C4: save_to_geojson writes the output file if and only if its argument is
\* non-null with a non-empty features list, and leaves the path unchanged
\* otherwise.
C4_WritesIffNonEmpty ==
    pc = "done" =>
        /\ opened <=> HasFeatures(processed_data)
        /\ ~HasFeatures(processed_data) => out_file = prior

\* C5: for a non-empty collection the write succeeds even when the parent
\* directory of the output path did not exist before the run.
C5_CreatesParentDirs ==
    (pc = "done" /\ HasFeatures(processed_data) /\ ~dir_exists) =>
        out_file = [exists |-> TRUE, text |-> Serialise(processed_data)]

\* ------------------------------------------------------------ regions
Abs(x) == IF x < 0 THEN -x ELSE x

EdgeAdjacent(p, q) == Abs(p[1] - q[1]) + Abs(p[2] - q[2]) = 1

\* Row-major position of a pixel.
Position(p) == (p[1] - 1) * Width + p[2]

Least(S) == CHOOSE x \in S : \A y \in S : x <= y

\* Every true pixel takes the least label among itself and its edge-adjacent
\* true pixels, until nothing changes: two true pixels end with the same
\* label exactly when a path of edge-adjacent true pixels joins them.
RECURSIVE Propagate(_, _)
Propagate(mask, lab) ==
    LET next == [p \in Pixels |->
                    IF ~mask[p] THEN 0
                    ELSE Least({lab[p]} \cup
                               {lab[q] : q \in {q \in Pixels :
                                            mask[q] /\ EdgeAdjacent(p, q)}})]
    IN  IF next = lab THEN lab ELSE Propagate(mask, next)

\* The maximal 4-connected regions of true pixels of a mask.
Regions(mask) ==
    LET lab == Propagate(mask, [p \in Pixels |-> IF mask[p] THEN Position(p) ELSE 0])
    IN  {{q \in Pixels : mask[q] /\ lab[q] = l} :
            l \in {lab[p] : p \in {p \in Pixels : mask[p]}}}

\* The mask [[T,F],[T,F]] of the stated example.
ExampleMask == [p \in (1..2) \X (1..2) |-> p[2] = 1]

\* C6, as stated: the number of Features is the number of maximal
\* 4-connected regions of true pixels, and the mask [[T,F],[T,F]] gives 2.
C6_ExampleGivesTwo ==
    CalcRan =>
        /\ Len(processed_data.features) = Cardinality(Regions(blooming_pixels))
        /\ blooming_pixels = ExampleMask => Len(processed_data.features) = 2

\* C6, amended: the number of Features is the number of maximal 4-connected
\* regions of true pixels of the mask, not the number of true pixels; the
\* mask [[T,F],[T,F]] is one region (its two pixels share an edge) and gives
\* 1 Feature.
C6_OneFeaturePerRegion ==
    CalcRan =>
        /\ Len(processed_data.features) = Cardinality(Regions(blooming_pixels))
        /\ {shape_list[i].geom : i \in 1..Len(shape_list)} = Regions(blooming_pixels)
        /\ blooming_pixels = ExampleMask => Len(processed_data.features) = 1

C6_Witness ==
    /\ CalcRan
    /\ blooming_pixels = ExampleMask
    /\ Len(processed_data.features) = 1
    /\ Cardinality({p \in Pixels : blooming_pixels[p]}) = 2

\* C7: every Feature's ndvi_peak is the peak of its region, the maximum of
\* the peak grid over the region's pixels (to the two decimals it is rounded
\* to): in hundredths, within half a hundredth of raw peak / 100.
C7_PeakIsRegionMax ==
    CalcRan =>
        \A i \in 1..Len(processed_data.features) :
            LET top == CHOOSE p \in shape_list[i].geom :
                           \A q \in shape_list[i].geom : RawPeak(q) <= RawPeak(p)
            IN  Abs(processed_data.features[i].properties.ndvi_peak
                        * (SCALE_FACTOR \div 100) - RawPeak(top))
                    <= (SCALE_FACTOR \div 100) \div 2

\* C8: the bloom mask is true exactly at the pixels whose peak, raw /
\* SCALE_FACTOR, is at least 0.80: a raw peak of 8000 is in the mask, one of
\* 7999 is not.
C8_MaskIsThreshold ==
    CalcRan =>
        \A p \in Pixels :
            /\ blooming_pixels[p] <=> AtLeastThreshold(RawPeak(p))
            /\ RawPeak(p) = 8000 => blooming_pixels[p]
            /\ RawPeak(p) = 7999 => ~blooming_pixels[p]

C8_Witness ==
    /\ CalcRan
    /\ \E p, q \in Pixels :
          /\ RawPeak(p) = 8000 /\ blooming_pixels[p]
          /\ RawPeak(q) = 7999 /\ ~blooming_pixels[q]

\* C9: the peak grid holds, at every pixel, the maximum of the pixel's
\* values over the bands, so a pixel is in the bloom mask if and only if at
\* least one of its bands meets the threshold.
C9_PeakIsMaxOverBands ==
    CalcRan =>
        \A p \in Pixels :
            /\ \E b \in BandIds : max_ndvi[p] = ScaleSample(raster[b][p])
            /\ \A b \in BandIds : F32Leq(ScaleSample(raster[b][p]), max_ndvi[p])
            /\ blooming_pixels[p] <=>
                   \E b \in BandIds : AtLeastThreshold(raster[b][p])

C9_Witness ==
    /\ CalcRan
    /\ \E p \in Pixels :
          /\ blooming_pixels[p]
          /\ ~AtLeastThreshold(raster[1][p])
          /\ AtLeastThreshold(raster[Bands][p])
    /\ \E q \in Pixels :
          /\ blooming_pixels[q]
          /\ AtLeastThreshold(raster[1][q])
          /\ ~AtLeastThreshold(raster[Bands][q])

\* ------------------------------------------------------------ /api/ndvi
Count(seq, x) == Cardinality({i \in 1..Len(seq) : seq[i] = x})

\* The requests issued so far follow login, submit, polls, bundle, file.
InOrder ==
    \A i, j \in 1..Len(requests) :
        i < j =>
            /\ requests[j] # "POST /login"
            /\ requests[j] = "POST /task" => requests[i] = "POST /login"
            /\ requests[j] = "GET /task/id" =>
                   requests[i] \in {"POST /login", "POST /task", "GET /task/id"}
            /\ requests[j] = "GET /bundle/id" => requests[i] # "GET ndvi file"
            /\ requests[i] = requests[j] => requests[i] = "GET /task/id"

C10_Safety ==
    /\ InOrder
    /\ polls <= 20
    /\ Count(requests, "GET /task/id") = polls
    /\ Count(requests, "GET /task/id") > 0 => Count(requests, "POST /task") = 1
    /\ Count(requests, "GET /bundle/id") > 0 =>
           /\ saw_done
           /\ requests[polls + 2] = "GET /task/id"
           /\ requests[polls + 3] = "GET /bundle/id"
    /\ Count(requests, "GET ndvi file") > 0 => Count(requests, "GET /bundle/id") = 1
    /\ (polls = 20 /\ status \in Statuses \ {"done"}) =>
           /\ s_pc = "done"
           /\ response = [code |-> 500, detail |-> "Task not completed in time"]
           /\ Count(requests, "GET /bundle/id") = 0
           /\ Count(requests, "GET ndvi file") = 0

\* C10: the steps of api_ndvi come in the order submit, poll, fetch-bundle,
\* parse; at most 20 status polls are issued; the bundle is requested only
\* after a poll returned "done"; 20 polls without "done" end the request with
\* 500 "Task not completed in time" and neither the bundle nor the NDVI file
\* is requested; and the handler terminates.
C10_PollThenBundle == []C10_Safety /\ <>(s_pc = "done")

C10_Witness ==
    /\ s_pc = "done"
    /\ polls = 20
    /\ ~saw_done
    /\ response.detail = "Task not completed in time"
    /\ Len(requests) = 22

====
